---- MODULE Spec2Model ----
(***************************************************************************)
(* Model of the pixel-dei simulation core: the per-tick loop of            *)
(* PixelManager (pixel/pixel_manager.py), the metabolism and reproduction   *)
(* rules (pixel/metabolism.py, pixel/reproduction.py), the genome helpers   *)
(* (pixel/genome.py) and the slow dynamics of World (world/world.py).       *)
(*                                                                         *)
(* Floats are fixed-point integers:                                        *)
(*   energies, stocks, genes, environment channels : 1/1000  (ONE = 1.0)   *)
(*   products of two of them, variance, stress     : 1/1000000             *)
(*   positions                                     : 1/4 of a tile         *)
(*   time and dt                                   : whole time units      *)
(* Divisions round toward minus infinity.                                  *)
(***************************************************************************)
EXTENDS Integers, Sequences, FiniteSets, TLC

-----------------------------------------------------------------------------
(* Bounds of the model                                                      *)

\* Number of PixelManager.step calls explored in one behaviour.
MaxTicks == 2

\* Number of Simulation.step calls made while paused in one behaviour.
MaxPausedCalls == 1

\* Number of load_snapshot calls between the Simulation's steps.
MaxReloads == 1

\* Number of per-agent computations that may raise in one behaviour.
MaxFailures == 1

\* Number of World operations explored in one behaviour of SpecEnv.
MaxEnvOps == 3

\* Calls of biome_from_env a caller makes with the same arguments.
MaxBiomeCalls == 2

\* Single-step commands issued in a run.
MaxStepCommands == 1

\* Calls of decode_traits made by its caller.
MaxDecodeCalls == 2

-----------------------------------------------------------------------------
(* Program constants                                                        *)

ONE == 1000
QUARTER == 4

IDX_ENERGY == 1
IDX_ORGANICS == 2
IDX_MINERALS == 3
IDX_MEMBRANE == 4
IDX_INFO == 5
N_INTERNAL == 5
N_ENV == 6

REPLICATION_GENE_INDEX == 1
REPLICATION_GENE_THRESHOLD == 700
DIV_ENERGY == 700
DIV_ORGANICS == 600
DIV_MEMBRANE == 500
DIV_INFO == 200

MOTILITY_GENE_INDEX == 2
MOTILITY_LEVEL1 == 200
MOTILITY_LEVEL2 == 600
TRAIT_GENE_THRESHOLD == 600

\* Simulation.base_dt = 1.0 / 60.0. dt is counted in whole time units here:
\* base_dt, the shortest step there is, counts as one.
BASE_DT == 1

ALPHA_PCT == 1
ENERGY_TARGET == 500
HUNGER_THRESHOLD == 400
STRESS_FLOOR == 20000
SEEK_STRESS == 50000
BASAL_ENERGY_COST == 1
CHILD_ENERGY == 800
SPLIT_PCT == 40
OVERHEAD_PCT == 80
MAX_PER_STEP == 512
GLOBAL_O2 == 20
PERCEPTION == 3

-----------------------------------------------------------------------------
(* Arithmetic helpers                                                       *)

Min(a, b) == IF a <= b THEN a ELSE b
Max(a, b) == IF a >= b THEN a ELSE b
Abs(a) == IF a >= 0 THEN a ELSE -a
Clip(v, lo, hi) == Max(lo, Min(hi, v))

\* Integer square root (largest r with r*r <= n), n >= 0.
ISqrt(n) == CHOOSE r \in 0..(n + 1) : r * r <= n /\ (r + 1) * (r + 1) > n

\* Python's round() on a position given in quarter tiles: nearest tile,
\* ties to the even tile.
RoundTile(q) ==
  LET t == q \div QUARTER
      r == q % QUARTER
  IN IF 2 * r < QUARTER THEN t
     ELSE IF 2 * r > QUARTER THEN t + 1
     ELSE IF t % 2 = 0 THEN t ELSE t + 1

-----------------------------------------------------------------------------
(* Genome (pixel/genome.py)                                                 *)

\* A missing genome (None).
NoGenome == << >>

GenomeOf(a, b, c, d, e, f, g, h) == <<a, b, c, d, e, f, g, h>>

\* random_genome(): zeros plus Gaussian noise of scale 0.01 on every gene.
\* The noise vectors explored: none, all +0.02, all -0.01, -0.007 on gene 0.
random_genome ==
  { GenomeOf(0, 0, 0, 0, 0, 0, 0, 0),
    GenomeOf(20, 20, 20, 20, 20, 20, 20, 20),
    GenomeOf(-10, -10, -10, -10, -10, -10, -10, -10),
    GenomeOf(-7, 0, 0, 0, 0, 0, 0, 0) }

\* GENE_TRAIT_MAP: gene index (1-based here) -> trait.
GENE_TRAIT_MAP ==
  (3 :> "photosynthesis") @@ (4 :> "chemosynthesis") @@
  (5 :> "antifreeze_proteins") @@ (6 :> "heat_resistance") @@
  (7 :> "cilia") @@ (8 :> "flagella")

\* Variant of TRAIT_PREREQS: no trait has a prerequisite.
NoPrereqs(t) == {}

\* TRAIT_PREREQS restricted to the traits GENE_TRAIT_MAP can propose.
TRAIT_PREREQS(t) ==
  CASE t = "photosynthesis" -> {"chloroplasts"}
    [] t = "chemosynthesis" -> {"cell_wall"}
    [] t = "antifreeze_proteins" -> {"digestive_system"}
    [] t = "heat_resistance" -> {"antifreeze_proteins", "thermoregulation"}
    [] OTHER -> {}

\* Variant of all_prereqs_met: one owned prerequisite is enough.
AnyPrereqMet(t, owned) == TRAIT_PREREQS(t) = {} \/ TRAIT_PREREQS(t) \cap owned # {}

\* all_prereqs_met(trait, owned, TRAIT_PREREQS)
all_prereqs_met(t, owned) == TRAIT_PREREQS(t) \subseteq owned

decode_traits(g) ==
  IF g = NoGenome THEN {}
  ELSE LET proposed == { GENE_TRAIT_MAP[k] : k \in { j \in DOMAIN GENE_TRAIT_MAP :
                                              j <= Len(g) /\ g[j] >= TRAIT_GENE_THRESHOLD } }
       IN { t \in proposed : all_prereqs_met(t, proposed) }

-----------------------------------------------------------------------------
(* Metabolism (pixel/metabolism.py)                                         *)

\* init_internal_state(n)[k]: one row of initial stocks.
init_internal_state ==
  (IDX_ENERGY :> 1000) @@ (IDX_ORGANICS :> 500) @@ (IDX_MINERALS :> 500) @@
  (IDX_MEMBRANE :> 300) @@ (IDX_INFO :> 100)

\* _coeff_matrix_from_genome: entry (r, k) of the [N_INTERNAL x n_env] matrix
\* read row-major from the genome vector tiled to fit.
Coeff(g, r, k) == g[((N_ENV * (r - 1) + (k - 1)) % Len(g)) + 1]

\* flux_internal[r] = clip(mat @ env_vec, -1, 1), in 1/1000000 per time unit.
Flux(g, env, r) ==
  LET dot[k \in 0..N_ENV] == IF k = 0 THEN 0 ELSE dot[k - 1] + Coeff(g, r, k) * env[k]
  IN Clip(dot[N_ENV], -(ONE * ONE), ONE * ONE)

\* (basal_energy_cost + 0.0005 * membrane) * dt
MetabolicCost(membrane, dt) == BASAL_ENERGY_COST * dt + (5 * membrane * dt) \div 10000

\* step_pixel_metabolism: the stocks row after one update.
MetabolismStocks(st, g, env, dt) ==
  IF g = NoGenome
  THEN [st EXCEPT ![IDX_ENERGY] = Max(0, st[IDX_ENERGY] - BASAL_ENERGY_COST * dt)]
  ELSE [r \in 1..N_INTERNAL |->
          LET grown == st[r] + (Flux(g, env, r) * dt) \div ONE
              paid == IF r = IDX_ENERGY
                      THEN grown - MetabolicCost(st[IDX_MEMBRANE], dt)
                      ELSE grown
          IN Max(paid, 0)]

\* Variant of FallbackDecay: a failed metabolism call leaves the energy as it is.
NoDecay(e, dt) == e

\* The flat fallback of PixelManager.step when the metabolism call raises.
FallbackDecay(e, dt) == e - BASAL_ENERGY_COST * dt

\* nutrient_to_energy(atom): 0.0 for every atom, so the feeding loop keeps the
\* first atom (index 0) with best_gain = 0.
nutrient_to_energy == 0

-----------------------------------------------------------------------------
(* Reproduction gates (pixel/reproduction.py)                               *)

\* Variant of has_basic_replication: every genome replicates.
AnyGenomeReplicates(g) == g # NoGenome

has_basic_replication(g) ==
  IF g = NoGenome \/ Len(g) = 0 THEN FALSE
  ELSE g[REPLICATION_GENE_INDEX] >= REPLICATION_GENE_THRESHOLD

division_conditions_met(st) ==
  /\ st[IDX_ENERGY] > DIV_ENERGY
  /\ st[IDX_ORGANICS] > DIV_ORGANICS
  /\ st[IDX_MEMBRANE] > DIV_MEMBRANE
  /\ st[IDX_INFO] > DIV_INFO

-----------------------------------------------------------------------------
(* World (world/world.py) and ResourceGrid (world/resources.py)             *)

\* Tile coordinates of a world of size <<w, h>>.
Cells(sz) == (0..(sz[1] - 1)) \X (0..(sz[2] - 1))

\* Row-major rank of a cell, used to enumerate sets of cells without repeats.
CellRank(sz, c) == c[2] * sz[1] + c[1]

\* Variant of Neighbourhood: the tile and its four edge neighbours only.
EdgeNeighbourhood(sz, x, y) ==
  { c \in Cells(sz) : Abs(c[1] - x) + Abs(c[2] - y) <= 1 }

\* The 3x3 block around (x, y) clipped to the grid, as deposit_biomass marks it.
Neighbourhood(sz, x, y) ==
  { c \in Cells(sz) : Abs(c[1] - x) <= 1 /\ Abs(c[2] - y) <= 1 }

\* organic_layer *= 1 - min(0.0001 * dt, 0.05)
DecayOrganic(v, d) == (v * (10000 - Min(d, 500))) \div 10000

\* mineral_layer *= 1 - min(0.00002 * dt, 0.02)
DecayMineral(v, d) == (v * (50000 - Min(d, 1000))) \div 50000

\* Variant of MaxPerStep: the whole dirty set is processed in one call.
Uncapped(n) == n

\* World.__init__: global_o2, global_co2 and global_ch4, in millionths.
InitialGases == [o2 |-> 1000 * GLOBAL_O2, co2 |-> 400, ch4 |-> 0]

\* Variant of BaseGases: the oxygen of today's air, biome_from_env's default.
ModernAir == [o2 |-> 210000, co2 |-> 400, ch4 |-> 0]

\* base_o2, base_co2 and the 0.0 methane tends to, in millionths.
BaseGases == [o2 |-> 20000, co2 |-> 400, ch4 |-> 0]

\* relax = min(0.00005 * dt, 0.01); gas += (base - gas) * relax, for each gas.
Relaxed(g, d) ==
  [k \in DOMAIN g |-> g[k] + ((BaseGases[k] - g[k]) * Min(50 * d, 10000)) \div 1000000]

\* max_per_step = min(512, len(self._dirty_cells))
MaxPerStep(n) == Min(MAX_PER_STEP, n)

\* The sets of k cells of S: what k calls of set.pop() may leave behind or
\* take, set.pop() returning an arbitrary element.
RECURSIVE KSubsets(_, _, _)
KSubsets(sz, S, k) ==
  IF k = 0 THEN { {} }
  ELSE IF k = Cardinality(S) THEN { S }
  ELSE IF k > Cardinality(S) THEN {}
  ELSE UNION { { T \cup {c} :
                 T \in KSubsets(sz, { e \in S : CellRank(sz, e) > CellRank(sz, c) }, k - 1) } :
               c \in S }

-----------------------------------------------------------------------------
(* world/biome.py                                                           *)

\* The members of the Biome enum.
Biome ==
  { "OCEAN", "WATER", "BEACH", "DESERT", "ROCK_DESERT", "GRASSLAND", "FOREST",
    "RAINFOREST", "SAVANNA", "SWAMP", "MANGROVE", "MOUNTAIN", "HILLS", "PLAIN",
    "TUNDRA", "SNOW", "GLACIER", "VOLCANIC", "LAKE", "RIVER" }

\* Variant of FallbackBiome: the function falls off its end.
ReturnsNothing == "None"

\* The last statement of biome_from_env, reached when no rule applied.
FallbackBiome == "GRASSLAND"

\* Variant of BarrenBiome: the pre-biotic branch falls back on the mild default.
MildDefault(alt, temp, hum, n) ==
  IF hum > 200 /\ temp > 200 THEN "GRASSLAND" ELSE "TUNDRA"

\* The pre-biotic branch of biome_from_env (organic_layer < 0.02): barren
\* analogues chosen by temperature band, humidity, elevation and noise.
BarrenBiome(alt, temp, hum, n) ==
  IF temp > 550
  THEN IF hum < 350 THEN (IF n > 400 THEN "ROCK_DESERT" ELSE "DESERT")
       ELSE IF hum < 600
            THEN (IF alt > 600 /\ n > 600 THEN "MOUNTAIN"
                  ELSE IF n > 500 THEN "ROCK_DESERT" ELSE "DESERT")
            ELSE (IF n > 300 THEN "PLAIN" ELSE "HILLS")
  ELSE IF 300 < temp /\ temp <= 550
       THEN IF alt < 350 THEN (IF n > 200 THEN "PLAIN" ELSE "DESERT")
            ELSE IF alt < 650 THEN (IF n > 300 THEN "HILLS" ELSE "ROCK_DESERT")
            ELSE "MOUNTAIN"
       ELSE IF alt > 650 /\ n > 400 THEN "MOUNTAIN"
            ELSE IF n > 500 THEN "ROCK_DESERT" ELSE "TUNDRA"

\* The last part of biome_from_env: vegetation biomes on soil with organics.
VegetatedBiome(alt, temp, hum, lat_frac, o2, org) ==
  IF lat_frac > 400 /\ hum > 800 /\ temp > 600 /\ org > 200 /\ o2 > 150 THEN "RAINFOREST"
  ELSE IF hum > 700 /\ alt < 350 THEN (IF lat_frac > 400 THEN "MANGROVE" ELSE "SWAMP")
  ELSE IF 300 < hum /\ hum < 600 /\ 300 < temp /\ temp < 700
       THEN (IF alt < 350 THEN "PLAIN" ELSE IF alt < 600 THEN "HILLS" ELSE "MOUNTAIN")
  ELSE IF hum > 600 /\ temp > 300 /\ o2 > 150 /\ org > 100 THEN "FOREST"
  ELSE IF hum > 350 /\ temp > 500 THEN "SAVANNA"
  ELSE IF hum > 200 /\ temp > 200 THEN "GRASSLAND"
  ELSE FallbackBiome

\* biome_from_env(elevation, temperature, humidity, pressure, global_o2,
\* organic_layer, mineral_layer, local_noise=...): the rules in source order;
\* mineral_layer is accepted and not read.
biome_from_env(alt, temp, hum, lat_frac, o2, org, miner, local_noise) ==
  LET n == Max(0, Min(ONE, local_noise))
  IN IF alt < 120 THEN "OCEAN"
     ELSE IF alt < 160 THEN (IF hum > 550 THEN "LAKE" ELSE "WATER")
     ELSE IF 160 <= alt /\ alt < 200 THEN "BEACH"
     ELSE IF alt > 850 /\ temp < 350 /\ lat_frac < 350 THEN "GLACIER"
     ELSE IF alt > 800 /\ hum < 250 /\ temp > 600 THEN "VOLCANIC"
     ELSE IF alt > 800 THEN (IF temp < 350 /\ lat_frac < 400 THEN "SNOW" ELSE "MOUNTAIN")
     ELSE IF lat_frac < 250 /\ alt > 500 THEN (IF temp < 350 THEN "TUNDRA" ELSE "SNOW")
     ELSE IF temp > 600 /\ hum < 450 /\ lat_frac > 450
          THEN (IF alt > 550 THEN "ROCK_DESERT" ELSE "DESERT")
     ELSE IF temp > 800 /\ hum < 350 THEN "DESERT"
     ELSE IF org < 20 THEN BarrenBiome(alt, temp, hum, n)
     ELSE VegetatedBiome(alt, temp, hum, lat_frac, o2, org)

\* The arguments of a biome_from_env call, by name; NoArgs when no call is made.
NoArgs ==
  [elevation |-> -1, temperature |-> -1, humidity |-> -1, pressure |-> -1,
   global_o2 |-> -1, organic_layer |-> -1, mineral_layer |-> -1, local_noise |-> -1]

BiomeOf(a) ==
  biome_from_env(a.elevation, a.temperature, a.humidity, a.pressure, a.global_o2,
                 a.organic_layer, a.mineral_layer, a.local_noise)

-----------------------------------------------------------------------------
(* Inputs explored                                                          *)

\* dt the driver passes to every PixelManager.step of a run: the headless
\* run's 1.0 and a fast-forward of 100.
DtPool == {1, 100}

\* Samples of World.get_environment_inputs, channels in ENV_CHANNELS order
\* (LIGHT, ORGANIC_SOUP, H2S, FE2, CO2, HEAT_GRADIENT): open water and barren land
\* while the organic layer is still empty.
EnvPool == { <<800, 0, 0, 50, 400, 0>>, <<200, 0, 0, 50, 400, 0>> }

\* Pairs of values of 2 * (np.random.rand() - 0.5) explored by _random_walk
\* (the x draw, the y draw).
WalkDraws == { <<-1, 1>>, <<0, 0>>, <<1, -1>> }

\* Values of (np.random.rand() - 0.5) * 0.5 explored for the child's offset,
\* in quarter tiles.
ChildOffsets == {-1, 0, 1}

\* Values of the standard normal explored for the child's mutation, applied to
\* every gene.
MutationDraws == {-1, 0, 1}

\* World sizes explored by the ticks: a one-tile world.
WorldSizes == { <<1, 1>> }

\* initial_counts of the ResourceGrid (per atom type and tile).
InitialCounts == {0, 1}

\* capacity of the PixelManager.
Capacities == {1, 2}

\* The single agent prepared for the division scenario: its genome, stocks and
\* stored energy variance are written directly into the arrays.
\* Genomes: replication gene at the threshold with and without a motility gene
\* of level 2, and replication gene just below the threshold; gene 4 offsets
\* the light income of gene 0 in open water.
PreparedGenomes ==
  { GenomeOf(700, 0, 0, 0, -1400, 0, 0, 0),
    GenomeOf(700, 600, 0, 0, -1400, 0, 0, 0),
    GenomeOf(699, 0, 0, 0, -1400, 0, 0, 0) }

\* Stocks (ENERGY, ORGANICS, MINERALS, MEMBRANE, INFO_ORDER): well above the
\* division thresholds, and one step above each of them.
PreparedStocks ==
  { <<900, 800, 500, 700, 300>>, <<701, 601, 500, 501, 201>> }

\* Stored energy variance: none, at the stress floor, well above it.
PreparedVariances == {0, 20000, 60000}

\* The prepared agent is the last of PreparedCounts agents; the ones before it
\* come from spawn_random. The arrays have room for PreparedRoom more agents.
\* The prepared agents that pass every division gate on the first tick.
DividingGenomes == {GenomeOf(700, 0, 0, 0, -1400, 0, 0, 0)}
DividingStocks == {<<900, 800, 500, 700, 300>>}
DividingVariances == {20000}

PreparedCounts == {1, 2}
PreparedRoom == {0, 1}
PreparedPositions == { <<0, 0>> }
CompanionGenomes == { GenomeOf(-10, -10, -10, -10, -10, -10, -10, -10) }

\* Dirty-set sizes of the deposit bursts explored around the per-call cap.
BurstSizes == {0, 1, 511, 512, 513}

\* World of the deposit bursts: a strip one tile wide.
BurstWorldSizes == { <<1, 513>> }

\* deposit_biomass calls explored: amounts (organics, minerals), one of them
\* negative.
DepositAmounts == { <<-300, 0>>, <<500, 250>> }

\* Arguments of biome_from_env explored, in thousandths, on both sides of the
\* thresholds of the rules.
BiomeElevations == {100, 140, 180, 300, 450, 580, 620, 700, 820, 900}
BiomeTemperatures == {150, 320, 500, 580, 650, 850}
BiomeHumidities == {100, 300, 400, 500, 650, 750, 850}
BiomeLatitudes == {200, 380, 420, 500}
BiomeOxygen == {20, 210}
BiomeOrganics == {0, 19, 50, 150, 300}
BiomeMinerals == {0, 250}
\* Gene values of the genomes given to decode_traits: none, just under and at
\* TRAIT_GENE_THRESHOLD, for the six mapped genes.
DecoderGenes == {0, 599, 600}

\* Values of the motility gene of those genomes: under MOTILITY_LEVEL1, at it,
\* and at MOTILITY_LEVEL2.
DecoderMotilities == {0, 200, 600}

\* Lengths of the shortened genomes: no genome, one gene, seven genes.
DecoderLengths == {0, 1, 7}

\* The genomes given to decode_traits: eight genes, and their prefixes.
DecoderGenomes ==
  LET full == { GenomeOf(0, m, a, b, c, d, e, f) :
                  m \in DecoderMotilities, a \in DecoderGenes, b \in DecoderGenes,
                  c \in DecoderGenes, d \in DecoderGenes, e \in DecoderGenes,
                  f \in DecoderGenes }
  IN full \cup { SubSeq(g, 1, k) : g \in full, k \in DecoderLengths }

BiomeNoise == {100, 250, 350, 450, 550, 700}

\* Seeds of the worlds and generators explored.
Seeds == {1, 2}

\* The seed of the world of main().
MainSeeds == {1}

\* Values (elevation, temperature, humidity) the coherent noise gives a tile:
\* ocean, warm humid lowland, temperate upland, cold highland, peak, warm
\* lowland.
FieldProfiles ==
  << <<100, 500, 900>>, <<300, 650, 850>>, <<450, 500, 450>>,
     <<700, 320, 300>>, <<900, 200, 200>>, <<250, 650, 650>> >>

\* dt of the direct advance_environment calls.
BurstDts == {1}

\* dt of the advance_environment calls on the small map: a tick of the headless
\* run, and one long enough for the decay to reach its cap of 5 percent.
WorldDts == {1, 500}

\* deposit_biomass calls explored on the small map: those of the strip, and an
\* amount of organics just above the pre-biotic floor of 0.02.
MapDepositAmounts == DepositAmounts \cup { <<22, 0>> }

\* dt given to Simulation.step and the values of Simulation.speed the
\* controls set (1.0x, 2.0x), and the capacity of the driven PixelManager.
SimDts == {50}
Speeds == {1, 2}
SimCapacities == {1}

\* The world whose snapshots and map cache are explored.
SnapshotWorldSizes == { <<3, 3>> }

\* Paths given to save_snapshot, load_snapshot and generate: with a directory
\* and the .npz suffix, without the suffix, without a directory.
NoPath == "None"
Paths == {"maps/world.npz", "maps/world", "world.npz"}

\* map_path of the World: none, or a cache file.
MapPaths == {NoPath, "maps/world.npz"}

\* save_path of direct MapGenerator.generate calls.
GeneratePaths == {NoPath, "maps/world.npz"}

-----------------------------------------------------------------------------
(* world/map_generator.py, World construction and snapshots                 *)

\* Every tile of every world explored.
AllCells == UNION { Cells(sz) : sz \in WorldSizes \cup BurstWorldSizes \cup SnapshotWorldSizes }

\* The last row and column of the largest worlds explored.
MaxRow == CHOOSE m \in { c[2] : c \in AllCells } : \A c \in AllCells : c[2] <= m
MaxColumn == CHOOSE m \in { c[1] : c \in AllCells } : \A c \in AllCells : c[1] <= m

\* lat_frac of row y: 1 - |y - h/2| / (h/2), clipped to [0, 1].
LatFrac(sz, y) == Clip(ONE - (Abs(2 * y - sz[2]) * ONE) \div sz[2], 0, ONE)

\* The four fields MapGenerator(size, seed) computes: the noise layers as a
\* fixed function of seed and tile, pressure as the latitude fraction.
GeneratedFields(sd, sz) ==
  LET prof(c) == FieldProfiles[((CellRank(sz, c) + sd - 1) % Len(FieldProfiles)) + 1]
  IN [elevation |-> [c \in Cells(sz) |-> prof(c)[1]],
      temperature |-> [c \in Cells(sz) |-> prof(c)[2]],
      humidity |-> [c \in Cells(sz) |-> prof(c)[3]],
      pressure |-> [c \in Cells(sz) |-> LatFrac(sz, c[2])]]

\* Bitwise exclusive or of two numbers of n bits.
RECURSIVE XorBits(_, _, _)
XorBits(a, b, n) ==
  IF n = 0 THEN 0
  ELSE (((a % 2) + (b % 2)) % 2) + 2 * XorBits(a \div 2, b \div 2, n - 1)

\* (k * (chi * 2^16 + clo)) mod 2^32 as <<high 16 bits, low 16 bits>>.
MulMod32(k, chi, clo) ==
  <<((k * chi) + ((k * clo) \div 65536)) % 65536, (k * clo) % 65536>>

\* World._local_noise_at(x, y): ((x * 73856093) ^ (y * 19349663) ^ seed) & 0xFFFFFFFF
\* divided by 0xFFFFFFFF, in thousandths; 73856093 = 1126 * 2^16 + 62557 and
\* 19349663 = 295 * 2^16 + 16543.
LocalNoiseOf(sd, c) ==
  LET a == MulMod32(c[1], 1126, 62557)
      b == MulMod32(c[2], 295, 16543)
      hi == XorBits(a[1], b[1], 16)
      lo == XorBits(XorBits(a[2], b[2], 16), sd, 16)
  IN (hi * ONE + (lo * ONE) \div 65536) \div 65536

\* The noise of every tile, computed once, by seed, row and column.
LocalNoiseTable ==
  [sd \in Seeds |->
     [y \in 0..MaxRow |-> [x \in 0..MaxColumn |-> LocalNoiseOf(sd, <<x, y>>)]]]

local_noise_at(sd, c) == LocalNoiseTable[sd][c[2]][c[1]]

\* Biomes that stop the second pass of _classify_biomes, and the ones a river
\* or a lake looks for around it.
WaterBiomes == {"OCEAN", "WATER", "LAKE", "RIVER", "BEACH"}
OpenWater == {"OCEAN", "WATER"}

\* Second pass of _classify_biomes over the tiles of rank lo..hi-1, in
\* row-major order and in place: rivers next to water, lakes away from open
\* water. The range is halved so that the first half is done before the second.
RECURSIVE RiversAndLakes(_, _, _, _, _)
RiversAndLakes(sz, f, raw, lo, hi) ==
  IF hi <= lo THEN raw
  ELSE IF hi = lo + 1
  THEN LET c == <<lo % sz[1], lo \div sz[1]>>
           elev == f.elevation[c]
           humid == f.humidity[c]
           nb == { raw[d] : d \in Neighbourhood(sz, c[1], c[2]) \ {c} }
           b == IF raw[c] \in WaterBiomes THEN raw[c]
                ELSE IF 160 < elev /\ elev < 650 /\ humid > 600 /\ nb \cap WaterBiomes # {}
                     THEN "RIVER"
                ELSE IF elev < 320 /\ humid > 700 /\ nb \cap OpenWater = {}
                     THEN "LAKE"
                ELSE raw[c]
       IN [raw EXCEPT ![c] = b]
  ELSE LET mid == (lo + hi) \div 2
           first == RiversAndLakes(sz, f, raw, lo, mid)
       IN IF DOMAIN first = DOMAIN raw
          THEN RiversAndLakes(sz, f, first, mid, hi)
          ELSE raw

\* _classify_biomes() at construction, the slow layers not yet allocated.
classify_biomes(sd, sz, f, o2) ==
  LET raw == [c \in Cells(sz) |->
                biome_from_env(f.elevation[c], f.temperature[c], f.humidity[c],
                               f.pressure[c], o2, 0, 0, local_noise_at(sd, c))]
  IN RiversAndLakes(sz, f, raw, 0, sz[1] * sz[2])

-----------------------------------------------------------------------------
(* State                                                                    *)

VARIABLES
  \* PixelManager
  capacity, count, positions, energies, alive, time, birth_time,
  energy_avg, energy_var, genomes, traits, internal_resources,
  \* World and ResourceGrid
  size, organic_layer, mineral_layer, dirty_cells, grid,
  \* position of PixelManager.step: phase, loop index, loop bound, dt
  pc, idx, loop_n, dt,
  \* observation of the current tick (history)
  tick, failures, swept, attempted, born, raised, move_raised,
  energy_before, stocks_before, var_before, flux_seen, divisions,
  reclassified, env_calls, deposits, grid_before,
  \* A caller of biome_from_env: its arguments and what the calls returned
  biome_args, biome_returned,
  \* A caller of decode_traits: its genome and what the calls returned
  decode_arg, decode_returned,
  \* World: seed, scalar fields, biome grid and global gases
  seed, elevation, temperature, humidity, pressure, biome_map, gases,
  \* The files written by save_snapshot and MapGenerator.generate
  files,
  \* Observations of the World calls: the cell whose classification raised in
  \* the last advance_environment call and whether the call raised, the
  \* arguments of the last deposit_biomass call, the save/load pair in
  \* progress, whether the last file operation raised, what the generate calls
  \* returned, the number of snapshot and generate calls, the kind of the last
  \* World call when it was one of those
  env_failed, env_raised, last_deposit, roundtrip, io_raised, generated, io_calls,
  last_io,
  \* Simulation: time, paused, speed, the metrics recorder; the number of
  \* step calls made while paused, the dt of the last call, whether it raised,
  \* the number of single-step commands issued
  sim_time, paused, sim_speed, metrics, paused_calls, sim_dt, sim_raised,
  step_commands

pmVars == <<capacity, count, positions, energies, alive, time, birth_time,
            energy_avg, energy_var, genomes, traits, internal_resources>>
worldVars == <<size, organic_layer, mineral_layer, dirty_cells, grid>>
ctlVars == <<pc, idx, loop_n, dt>>
histVars == <<tick, failures, swept, attempted, born, raised, move_raised,
              energy_before, stocks_before, var_before, flux_seen, divisions,
              reclassified, env_calls, deposits, grid_before>>
classVars == <<biome_args, biome_returned, decode_arg, decode_returned>>
mapVars == <<seed, elevation, temperature, humidity, pressure, biome_map, gases>>
fileVars == <<files>>
ioVars == <<env_failed, env_raised, last_deposit, roundtrip, io_raised, generated, io_calls,
           last_io>>
simVars == <<sim_time, paused, sim_speed, metrics, paused_calls, sim_dt, sim_raised,
             step_commands>>
vars == <<pmVars, worldVars, ctlVars, histVars, classVars, mapVars, fileVars, ioVars, simVars>>

Slots == 1..capacity

-----------------------------------------------------------------------------
(* Files, snapshots and the map cache                                       *)

\* No array (None), no file at a path.
NoArray == <<>>
NoFile ==
  [exists |-> FALSE, has_biome |-> FALSE, elevation |-> NoArray, temperature |-> NoArray,
   humidity |-> NoArray, pressure |-> NoArray, biome |-> NoArray]

\* os.makedirs(os.path.dirname(path), exist_ok=True) raises on an empty dirname.
HasDirectory(path) == path # "world.npz"

\* The file np.savez_compressed(path, ...) writes: ".npz" is appended to a path
\* that does not end with it.
Stored(path) == IF path = "maps/world" THEN "maps/world.npz" ELSE path

\* The archive MapGenerator.generate writes: the four fields.
CacheOf(f) ==
  [exists |-> TRUE, has_biome |-> FALSE, elevation |-> f.elevation,
   temperature |-> f.temperature, humidity |-> f.humidity, pressure |-> f.pressure,
   biome |-> NoArray]

\* Variant of SnapshotOf: the archive holds the four fields only.
SnapshotWithoutBiome == CacheOf([elevation |-> elevation, temperature |-> temperature, humidity |-> humidity, pressure |-> pressure])

\* The archive save_snapshot writes: the four fields and the biome grid.
SnapshotOf ==
  [exists |-> TRUE, has_biome |-> TRUE, elevation |-> elevation,
   temperature |-> temperature, humidity |-> humidity, pressure |-> pressure,
   biome |-> biome_map]

\* The arrays a snapshot round trip is about.
WorldArrays == <<elevation, temperature, humidity, pressure, biome_map>>

NoRoundTrip == [stage |-> "none", path |-> NoPath, world |-> <<>>]
NoDeposit == [x |-> 0, y |-> 0, organics |-> 0, minerals |-> 0, made |-> FALSE]

\* MapGenerator(size, seed).generate(save_path) on the files fl: the fields it
\* returns. A readable cache of the requested shape is returned as it is.
CacheHit(fl, sz, path) ==
  /\ path # NoPath
  /\ fl[path].exists
  /\ ~(fl[path].has_biome /\ fl[path].biome = NoArray)
  /\ DOMAIN fl[path].elevation = Cells(sz)

generate(fl, sd, sz, path) ==
  IF CacheHit(fl, sz, path)
  THEN [elevation |-> fl[path].elevation, temperature |-> fl[path].temperature,
        humidity |-> fl[path].humidity, pressure |-> fl[path].pressure]
  ELSE GeneratedFields(sd, sz)

\* The files after that call: a freshly generated map is written to save_path.
GenerateWrites(fl, sd, sz, path) ==
  IF CacheHit(fl, sz, path) \/ path = NoPath \/ ~HasDirectory(path) THEN fl
  ELSE [fl EXCEPT ![Stored(path)] = CacheOf(GeneratedFields(sd, sz))]

\* generate raises when it has to write to a path without a directory.
GenerateRaises(fl, sz, path) ==
  ~CacheHit(fl, sz, path) /\ path # NoPath /\ ~HasDirectory(path)

\* World._generate_or_load(): the fields from the generator, the first full
\* classification, and the cache file when the World has a map_path.
MapGenerated(sd, sz, mp) ==
  LET none == [q \in Paths |-> NoFile]
      f == generate(none, sd, sz, mp)
  IN /\ seed = sd
     /\ elevation = f.elevation
     /\ temperature = f.temperature
     /\ humidity = f.humidity
     /\ pressure = f.pressure
     /\ biome_map = classify_biomes(sd, sz, f, GLOBAL_O2)
     /\ gases = InitialGases
     /\ files = GenerateWrites(none, sd, sz, mp)
     /\ generated = { [seed |-> sd, out |-> f] }

\* No World call observed yet.
NoWorldCalls ==
  /\ env_failed = {}
  /\ env_raised = FALSE
  /\ last_deposit = NoDeposit
  /\ roundtrip = NoRoundTrip
  /\ io_raised = FALSE
  /\ io_calls = 0
  /\ last_io = "none"

-----------------------------------------------------------------------------
(* Construction                                                             *)

\* PixelManager.__init__(capacity): the arrays as allocated.
ManagerConstructed(cap) ==
  /\ capacity = cap
  /\ count = 0
  /\ positions = [i \in 1..cap |-> <<0, 0>>]
  /\ energies = [i \in 1..cap |-> ONE]
  /\ alive = [i \in 1..cap |-> TRUE]
  /\ time = 0
  /\ birth_time = [i \in 1..cap |-> 0]
  /\ energy_avg = [i \in 1..cap |-> ONE]
  /\ energy_var = [i \in 1..cap |-> 0]
  /\ genomes = [i \in 1..cap |-> NoGenome]
  /\ traits = [i \in 1..cap |-> {}]
  /\ internal_resources = [i \in 1..cap |-> init_internal_state]

\* World.__init__(size): empty slow layers, no dirty cell after the full
\* classification; ResourceGrid(shape, initial_counts).
WorldConstructed(sz, initial) ==
  /\ size = sz
  /\ organic_layer = [c \in Cells(sz) |-> 0]
  /\ mineral_layer = [c \in Cells(sz) |-> 0]
  /\ dirty_cells = {}
  /\ grid = [c \in Cells(sz) |-> initial]
  /\ \E sd \in MainSeeds : MapGenerated(sd, sz, NoPath)

Idle ==
  /\ pc = "idle"
  /\ idx = 0
  /\ loop_n = 0
  /\ dt \in DtPool

NothingObserved ==
  /\ tick = 0
  /\ failures = 0
  /\ swept = {}
  /\ attempted = {}
  /\ born = {}
  /\ raised = {}
  /\ move_raised = {}
  /\ energy_before = energies
  /\ stocks_before = internal_resources
  /\ var_before = energy_var
  /\ flux_seen = [i \in 1..capacity |-> 0]
  /\ divisions = {}
  /\ reclassified = {}
  /\ env_calls = 0
  /\ deposits = 0
  /\ grid_before = grid
  /\ NoWorldCalls

\* No caller of biome_from_env outside the World.
\* Simulation.metrics: None, or a RunRecorder and its step_count.
NoMetrics == [attached |-> FALSE, step_count |-> 0]

\* Simulation.__init__, with the recorder the caller attached or none.
SimulationConstructed(m) ==
  /\ sim_time = 0
  /\ paused = FALSE
  /\ sim_speed = 1
  /\ metrics = m
  /\ paused_calls = 0
  /\ sim_dt = 0
  /\ sim_raised = FALSE
  /\ step_commands = 0

NoDecoder ==
  /\ decode_arg = NoGenome
  /\ decode_returned = <<>>

NoClassifier ==
  /\ biome_args = NoArgs
  /\ biome_returned = <<>>
  /\ NoDecoder

\* main(): a World, a ResourceGrid and an empty PixelManager.
Init ==
  /\ \E cap \in Capacities : ManagerConstructed(cap)
  /\ \E sz \in WorldSizes, initial \in InitialCounts : WorldConstructed(sz, initial)
  /\ Idle
  /\ NothingObserved
  /\ NoClassifier
  /\ SimulationConstructed(NoMetrics)

-----------------------------------------------------------------------------
(* PixelManager.spawn_random                                                *)

\* Positions a spawned agent may get: any tile of the world (the Gaussian
\* around the centre, clamped to the borders).
SpawnPositions == { <<QUARTER * c[1], QUARTER * c[2]>> : c \in Cells(size) }

\* spawn_random(world, resource_grid, n): append up to n agents at count.
spawn_random(n) ==
  LET k == Min(n, capacity - count)
      new == (count + 1)..(count + k)
  IN /\ pc = "idle"
     /\ tick = 0
     /\ \E gs \in [new -> random_genome], ps \in [new -> SpawnPositions] :
          /\ positions' = [i \in Slots |-> IF i \in new THEN ps[i] ELSE positions[i]]
          /\ genomes' = [i \in Slots |-> IF i \in new THEN gs[i] ELSE genomes[i]]
          /\ traits' = [i \in Slots |-> IF i \in new THEN decode_traits(gs[i]) ELSE traits[i]]
     /\ energies' = [i \in Slots |-> IF i \in new THEN ONE ELSE energies[i]]
     /\ alive' = [i \in Slots |-> IF i \in new THEN TRUE ELSE alive[i]]
     /\ birth_time' = [i \in Slots |-> IF i \in new THEN time ELSE birth_time[i]]
     /\ internal_resources' =
          [i \in Slots |-> IF i \in new THEN init_internal_state ELSE internal_resources[i]]
     /\ count' = count + k
     /\ energy_before' = energies'
     /\ stocks_before' = internal_resources'
     /\ UNCHANGED <<capacity, time, energy_avg, energy_var, var_before>>
     /\ UNCHANGED <<worldVars, ctlVars>>
     /\ UNCHANGED ioVars
     /\ UNCHANGED mapVars
     /\ UNCHANGED fileVars
     /\ UNCHANGED classVars
     /\ UNCHANGED simVars
  /\ UNCHANGED simVars
     /\ UNCHANGED <<tick, failures, swept, attempted, born, raised, move_raised,
                    flux_seen, divisions, reclassified, env_calls, deposits, grid_before>>

SpawnRandom == \E n \in 1..capacity : spawn_random(n)

-----------------------------------------------------------------------------
(* World.advance_environment and World.deposit_biomass                      *)

\* _reclassify_cell(x, y) with the layers org and miner and the gases air: the
\* biome written to biome_map[y, x]. The oxygen fraction is handed to
\* biome_from_env in thousandths, rounded up, which keeps "> 0.15" exact.
reclassify_cell(c, org, miner, air) ==
  biome_from_env(elevation[c], temperature[c], humidity[c], pressure[c],
                 (air.o2 + 999) \div 1000, org[c], miner[c], local_noise_at(seed, c))

\* Variant of Reclassified: the river and lake pass is applied to the
\* reclassified cells as well.
ReclassifiedWithRivers(org, miner, air) ==
  IF biome_map = NoArray THEN NoArray
  ELSE LET f == [elevation |-> elevation, temperature |-> temperature,
                 humidity |-> humidity, pressure |-> pressure]
           raw == [c \in DOMAIN biome_map |-> reclassify_cell(c, org, miner, air)]
           full == RiversAndLakes(size, f, raw, 0, size[1] * size[2])
       IN [c \in DOMAIN biome_map |-> IF c \in dirty_cells THEN full[c] ELSE biome_map[c]]

\* The biome grid if every dirty cell were reclassified with the layers org
\* and miner.
Reclassified(org, miner, air) ==
  IF biome_map = NoArray THEN NoArray
  ELSE [c \in DOMAIN biome_map |->
          IF c \in dirty_cells THEN reclassify_cell(c, org, miner, air) ELSE biome_map[c]]

\* _reclassify_cell raises on "self.biome_map[y, x] = ..." when biome_map is
\* None; advance_environment then stops at the first cell it popped.
EnvRaises == biome_map = NoArray /\ dirty_cells # {}

\* advance_environment(dt): decay of the slow layers, relaxation of the gases,
\* then the bounded batch of dirty cells popped and reclassified.
advance_environment(d) ==
  \E org \in { [c \in DOMAIN organic_layer |-> DecayOrganic(organic_layer[c], d)] },
     miner \in { [c \in DOMAIN mineral_layer |-> DecayMineral(mineral_layer[c], d)] } :
    \E air \in { Relaxed(gases, d) }, fresh \in { Reclassified(org, miner, Relaxed(gases, d)) } :
      /\ organic_layer' = org
      /\ gases' = air
      /\ mineral_layer' = miner
      /\ IF EnvRaises
         THEN \E c \in dirty_cells :
                /\ dirty_cells' = dirty_cells \ {c}
                /\ reclassified' = {}
                /\ biome_map' = biome_map
                /\ env_failed' = {c}
         ELSE \E keep \in KSubsets(size, dirty_cells,
                                   Cardinality(dirty_cells) - MaxPerStep(Cardinality(dirty_cells))) :
                /\ dirty_cells' = keep
                /\ reclassified' = dirty_cells \ keep
                /\ biome_map' = IF dirty_cells = {} THEN biome_map
                                ELSE [c \in keep |-> biome_map[c]] @@ fresh
                /\ env_failed' = {}
      /\ env_raised' = EnvRaises
      /\ env_calls' = env_calls + 1
      /\ roundtrip' = NoRoundTrip
      /\ last_io' = "none"

\* The layers and the dirty set after deposit_biomass(x, y, organics, minerals).
InGrid(x, y) == x >= 0 /\ x < size[1] /\ y >= 0 /\ y < size[2]

DepositOrganic(x, y, organics) ==
  IF InGrid(x, y)
  THEN [organic_layer EXCEPT ![<<x, y>>] = @ + Max(0, organics)]
  ELSE organic_layer

DepositMineral(x, y, minerals) ==
  IF InGrid(x, y)
  THEN [mineral_layer EXCEPT ![<<x, y>>] = @ + Max(0, minerals)]
  ELSE mineral_layer

DepositDirty(x, y) ==
  IF InGrid(x, y) THEN dirty_cells \cup Neighbourhood(size, x, y) ELSE dirty_cells

-----------------------------------------------------------------------------
(* PixelManager.step: helpers of the per-agent sweep                        *)

\* _motility_level(idx)
MotilityLevel(g, tr) ==
  IF g = NoGenome \/ Len(g) < 2 THEN 0
  ELSE LET mot == g[MOTILITY_GENE_INDEX]
           gene == IF mot >= MOTILITY_LEVEL2 THEN 2
                   ELSE IF mot >= MOTILITY_LEVEL1 THEN 1 ELSE 0
           ciliate == IF tr \cap {"cilia", "flagella"} # {} THEN Max(gene, 1) ELSE gene
       IN IF tr \cap {"muscle", "legs", "fins", "wings"} # {} THEN Max(ciliate, 2)
          ELSE ciliate

\* new_avg = (1 - alpha) * avg + alpha * e
NewAvg(avg, e) == ((100 - ALPHA_PCT) * avg + ALPHA_PCT * e) \div 100

\* new_var = (1 - alpha) * var + alpha * (e - avg) ** 2
NewVar(var, avg, e) == ((100 - ALPHA_PCT) * var + ALPHA_PCT * (e - avg) * (e - avg)) \div 100

\* metabolic_stress = max(0, 0.5 - e) + homeostasis_error
MetabolicStress(e, var) == Max(0, ENERGY_TARGET - e) * ONE + var

\* Speed in 1/1000000 tile per time unit of an agent that found no food.
HungrySpeed(level) ==
  IF level = 0 THEN 10000 ELSE IF level = 1 THEN 150000 ELSE 800000

\* base_speed of an agent with sufficient energy, levels 0 and 1.
BaseSpeed(level, stress) ==
  IF level = 0 THEN 10000 + (4 * Min(ONE * ONE, stress)) \div 100
  ELSE 50000 + (20 * Min(ONE * ONE, stress)) \div 100

\* _random_walk(x, y, speed * dt): u is the pair of draws.
RandomWalk(p, speed, d, u) ==
  LET reach == (speed * d * QUARTER) \div (ONE * ONE)
  IN <<p[1] + u[1] * reach, p[2] + u[2] * reach>>

\* decide_move: the first tile in scan order with the highest atom count inside
\* the perception square, then one step of at most one tile towards its centre.
\* Only atom 0 is ever consumed, so tiles compare by their atom-0 count.
decide_move(p, u) ==
  LET cx == RoundTile(p[1])
      cy == RoundTile(p[2])
      seen == { c \in Cells(size) : Abs(c[1] - cx) <= PERCEPTION /\ Abs(c[2] - cy) <= PERCEPTION }
      rank(c) == CellRank(size, c)
      best == IF seen = {} THEN << >>
              ELSE CHOOSE c \in seen :
                     \A o \in seen : grid[o] < grid[c] \/ (grid[o] = grid[c] /\ rank(o) >= rank(c))
      tx == IF seen = {} THEN p[1] ELSE QUARTER * best[1] + QUARTER \div 2
      ty == IF seen = {} THEN p[2] ELSE QUARTER * best[2] + QUARTER \div 2
      dx == tx - p[1]
      dy == ty - p[2]
      dist == ISqrt(dx * dx + dy * dy)
  IN IF dx = 0 /\ dy = 0
     THEN <<p[1] + u[1] * (QUARTER \div 2), p[2] + u[2] * (QUARTER \div 2)>>
     ELSE IF dx * dx + dy * dy <= QUARTER * QUARTER THEN <<tx, ty>>
     ELSE <<p[1] + (dx * QUARTER) \div dist, p[2] + (dy * QUARTER) \div dist>>

\* Variant of Clamp: the position is left where the walk put it.
Unclamped(p) == p

\* _clamp(idx, world)
Clamp(p) ==
  <<Max(0, Min(QUARTER * (size[1] - 1), p[1])), Max(0, Min(QUARTER * (size[2] - 1), p[2]))>>

\* The tile int(round(x)), int(round(y)) of a position.
TileOf(p) == <<RoundTile(p[1]), RoundTile(p[2])>>

\* ResourceGrid.consume_atom(x, y, 0, amount=1) succeeds.
CanConsume(c) == c \in DOMAIN grid /\ grid[c] >= 1

-----------------------------------------------------------------------------
(* PixelManager.step                                                        *)

\* step(dt, world, resource_grid), first part: the clock, the slow world
\* processes, and the start of the sweep over range(self.count).
step_begin(d) ==
  /\ pc = "idle"
  /\ tick < MaxTicks
  /\ time' = time + d
  /\ advance_environment(d)
  /\ pc' = IF EnvRaises THEN "idle" ELSE "sweep"
  /\ idx' = IF EnvRaises THEN 0 ELSE 1
  /\ loop_n' = IF EnvRaises THEN 0 ELSE count
  /\ tick' = tick + 1
  /\ swept' = {}
  /\ attempted' = {}
  /\ born' = {}
  /\ raised' = {}
  /\ move_raised' = {}
  /\ energy_before' = energies
  /\ stocks_before' = internal_resources
  /\ var_before' = energy_var
  /\ flux_seen' = [i \in Slots |-> 0]
  /\ divisions' = {}
  /\ grid_before' = grid
  /\ UNCHANGED <<capacity, count, positions, energies, alive, birth_time,
                 energy_avg, energy_var, genomes, traits, internal_resources>>
  /\ UNCHANGED <<size, grid, failures, deposits>>
  /\ UNCHANGED fileVars
  /\ UNCHANGED classVars
  /\ UNCHANGED <<seed, elevation, temperature, humidity, pressure>>
  /\ UNCHANGED <<last_deposit, io_raised, generated, io_calls>>

\* PixelManager.step called by the headless driver with the run's dt.
StepBegin ==
  /\ step_begin(dt)
  /\ UNCHANGED dt
  /\ UNCHANGED simVars

\* The energy of an agent after the metabolism block: the mirror of the ENERGY
\* stock, or the flat decay when the guarded call raised.
EnergyAfterMetabolism(e, st, fail, d) ==
  IF fail THEN FallbackDecay(e, d) ELSE st[IDX_ENERGY]

\* Loop body of the sweep for a live agent i. env is the sample of
\* get_environment_inputs, u the draws of the walk, mfail / fail whether
\* decide_move / the metabolism call raise.
SweepAgent(i, env, u, mfail, fail) ==
  LET p == positions[i]
      e == energies[i]
      g == genomes[i]
      navg == NewAvg(energy_avg[i], e)
      nvar == NewVar(energy_var[i], energy_avg[i], e)
      stress == MetabolicStress(e, nvar)
      level == MotilityLevel(g, traits[i])
      hungry == e < HUNGER_THRESHOLD
      tile == TileOf(p)
      eaten == hungry /\ CanConsume(tile)
      seeks == ~hungry /\ level = 2 /\ stress >= SEEK_STRESS
      moved == IF hungry
               THEN IF eaten THEN p ELSE RandomWalk(p, HungrySpeed(level), dt, u)
               ELSE IF level < 2 THEN RandomWalk(p, BaseSpeed(level, stress), dt, u)
               ELSE IF ~seeks THEN RandomWalk(p, 100000, dt, u)
               ELSE IF mfail THEN RandomWalk(p, 300000, dt, u)
               ELSE decide_move(p, u)
      fed == IF eaten THEN Min(ONE, e + Max(0, nutrient_to_energy)) ELSE e
      st == IF fail THEN internal_resources[i]
            ELSE MetabolismStocks(internal_resources[i], g, env, dt)
      ne == EnergyAfterMetabolism(fed, st, fail, dt)
      np == Clamp(moved)
      dies == ne <= 0
      dtile == TileOf(np)
  IN /\ (mfail => seeks)
     /\ failures' = failures + (IF mfail THEN 1 ELSE 0) + (IF fail THEN 1 ELSE 0)
     /\ failures' <= MaxFailures
     /\ energy_avg' = [energy_avg EXCEPT ![i] = navg]
     /\ energy_var' = [energy_var EXCEPT ![i] = nvar]
     /\ grid' = IF eaten THEN [grid EXCEPT ![tile] = @ - 1] ELSE grid
     /\ positions' = [positions EXCEPT ![i] = np]
     /\ internal_resources' = [internal_resources EXCEPT ![i] = st]
     /\ energies' = [energies EXCEPT ![i] = ne]
     /\ alive' = [alive EXCEPT ![i] = ~dies]
     /\ organic_layer' = IF dies THEN DepositOrganic(dtile[1], dtile[2], st[IDX_ORGANICS])
                         ELSE organic_layer
     /\ mineral_layer' = IF dies THEN DepositMineral(dtile[1], dtile[2], st[IDX_MINERALS])
                         ELSE mineral_layer
     /\ dirty_cells' = IF dies THEN DepositDirty(dtile[1], dtile[2]) ELSE dirty_cells
     /\ deposits' = IF dies THEN deposits + 1 ELSE deposits
     /\ last_deposit' = IF dies
                        THEN [x |-> dtile[1], y |-> dtile[2], organics |-> st[IDX_ORGANICS],
                              minerals |-> st[IDX_MINERALS], made |-> TRUE]
                        ELSE last_deposit
     /\ swept' = swept \cup {i}
     /\ raised' = IF fail THEN raised \cup {i} ELSE raised
     /\ move_raised' = IF mfail THEN move_raised \cup {i} ELSE move_raised
     /\ flux_seen' = [flux_seen EXCEPT ![i] =
                        IF fail \/ g = NoGenome THEN 0 ELSE Flux(g, env, IDX_ENERGY)]

\* One iteration of "for i in range(self.count)" in step: a dead slot is
\* skipped, a live agent is processed.
SweepVisit ==
  /\ pc = "sweep"
  /\ idx <= loop_n
  /\ IF ~alive[idx]
     THEN UNCHANGED <<positions, energies, alive, energy_avg, energy_var,
                      internal_resources, organic_layer, mineral_layer, dirty_cells,
                      grid, failures, swept, raised, move_raised, flux_seen, deposits,
                      last_deposit>>
     ELSE \E env \in EnvPool, u \in WalkDraws, mfail \in BOOLEAN, fail \in BOOLEAN :
            SweepAgent(idx, env, u, mfail, fail)
  /\ idx' = idx + 1
  /\ UNCHANGED <<capacity, count, time, birth_time, genomes, traits, size>>
  /\ UNCHANGED <<pc, loop_n, dt>>
  /\ UNCHANGED <<env_failed, env_raised, roundtrip, io_raised, generated, io_calls, last_io>>
  /\ UNCHANGED mapVars
  /\ UNCHANGED fileVars
  /\ UNCHANGED classVars
  /\ UNCHANGED simVars
  /\ UNCHANGED <<tick, attempted, born, energy_before, stocks_before, var_before,
                 divisions, reclassified, env_calls, grid_before>>

\* Variant of ReproLoopBound: the bound is re-read on every iteration.
LiveCount == count

\* The bound of the reproduction loop, "for i in range(self.count)": read once,
\* when the loop starts.
ReproLoopBound == loop_n

\* End of the sweep: step goes on to _attempt_asexual_division.
SweepEnd ==
  /\ pc = "sweep"
  /\ idx > loop_n
  /\ pc' = "repro"
  /\ idx' = 1
  /\ loop_n' = count
  /\ UNCHANGED <<pmVars, worldVars, dt, histVars>>
  /\ UNCHANGED ioVars
  /\ UNCHANGED mapVars
  /\ UNCHANGED fileVars
  /\ UNCHANGED classVars
  /\ UNCHANGED simVars

-----------------------------------------------------------------------------
(* PixelManager._attempt_asexual_division and _spawn_child                  *)

\* v * pct / 100
Scale(v, pct) == (v * pct) \div 100

\* Variant of SplitStocks: the ENERGY slot is split like the others.
SplitWithoutOverhead(st) == [r \in 1..N_INTERNAL |-> Scale(st[r], SPLIT_PCT)]

\* The stocks parent and child are both left with: 40% of every stock, and a
\* further 80% of that on the ENERGY slot.
SplitStocks(st) ==
  [r \in 1..N_INTERNAL |->
     IF r = IDX_ENERGY THEN Scale(Scale(st[r], SPLIT_PCT), OVERHEAD_PCT)
     ELSE Scale(st[r], SPLIT_PCT)]

\* metabolic_stress as _attempt_asexual_division computes it, from the ENERGY
\* stock and the stored variance.
DivisionStress(st, var) == MetabolicStress(st[IDX_ENERGY], var)

\* sigma = 0.003 + min(0.03, metabolic_stress * 0.1), in 1/1000
MutationSigma(stress) == 3 + Min(30, stress \div 10000)

\* base + np.random.normal(scale=sigma): z is the draw.
Mutate(g, stress, z) == [k \in 1..Len(g) |-> g[k] + z * MutationSigma(stress)]

\* Variant of StressAllows: the stress floor is not checked.
StressIgnored(stress) == TRUE

\* "if metabolic_stress < 0.02: continue"
StressAllows(stress) == stress >= STRESS_FLOOR

\* The gates of the reproduction loop body before a child is spawned.
MayDivide(i) ==
  /\ alive[i]
  /\ genomes[i] # NoGenome
  /\ has_basic_replication(genomes[i])
  /\ division_conditions_met(internal_resources[i])
  /\ StressAllows(DivisionStress(internal_resources[i], energy_var[i]))

\* Variant of HasRoom: the last slot is never used.
HasSpareRoom == count + 1 < capacity

\* Variant of HasRoom: the refusal comes one agent too late.
HasRoomWhenFull == count <= capacity

\* _spawn_child refuses when the arrays are full.
HasRoom == count < capacity

\* Variant of ChildSlot: a dead slot is reused when there is one.
FirstFreeSlot ==
  IF \E i \in 1..count : ~alive[i] THEN CHOOSE i \in 1..count : ~alive[i] ELSE count + 1

\* _spawn_child writes the child at idx = self.count (slot count + 1 here).
ChildSlot == count + 1

\* Loop body of the reproduction loop for agent i when it divides: the child is
\* appended at index count.
Divide(i, z, off) ==
  LET st == internal_resources[i]
      stress == DivisionStress(st, energy_var[i])
      cg == Mutate(genomes[i], stress, z)
      c == ChildSlot
      half == SplitStocks(st)
  IN /\ positions' = [positions EXCEPT ![c] = <<positions[i][1] + off[1], positions[i][2] + off[2]>>]
     /\ energies' = [energies EXCEPT ![c] = CHILD_ENERGY]
     /\ alive' = [alive EXCEPT ![c] = TRUE]
     /\ genomes' = [genomes EXCEPT ![c] = cg]
     /\ traits' = [traits EXCEPT ![c] = decode_traits(cg)]
     /\ birth_time' = [birth_time EXCEPT ![c] = time]
     /\ internal_resources' = [internal_resources EXCEPT ![c] = half, ![i] = half]
     /\ count' = count + 1
     /\ born' = born \cup {c}
     /\ divisions' = divisions \cup
          { [parent |-> i, child |-> c, pre |-> st, var |-> energy_var[i],
             gene |-> genomes[i][REPLICATION_GENE_INDEX], parent_alive |-> alive[i]] }

\* One iteration of "for i in range(self.count)" in _attempt_asexual_division.
ReproVisit ==
  /\ pc = "repro"
  /\ idx <= ReproLoopBound
  /\ IF MayDivide(idx) /\ HasRoom
     THEN \E z \in MutationDraws, off \in ChildOffsets \X ChildOffsets : Divide(idx, z, off)
     ELSE UNCHANGED <<positions, energies, alive, genomes, traits, birth_time,
                      internal_resources, count, born, divisions>>
  /\ attempted' = IF alive[idx] THEN attempted \cup {idx} ELSE attempted
  /\ idx' = idx + 1
  /\ UNCHANGED <<capacity, time, energy_avg, energy_var>>
  /\ UNCHANGED <<worldVars, pc, loop_n, dt>>
  /\ UNCHANGED ioVars
  /\ UNCHANGED mapVars
  /\ UNCHANGED fileVars
  /\ UNCHANGED classVars
  /\ UNCHANGED simVars
  /\ UNCHANGED <<tick, failures, swept, raised, move_raised, energy_before,
                 stocks_before, var_before, flux_seen, reclassified, env_calls, deposits, grid_before>>

\* End of the reproduction loop: step returns.
step_returns ==
  /\ pc = "repro"
  /\ idx > ReproLoopBound
  /\ pc' = "idle"
  /\ idx' = 0
  /\ loop_n' = 0
  /\ UNCHANGED <<pmVars, worldVars, dt, histVars>>
  /\ UNCHANGED ioVars
  /\ UNCHANGED mapVars
  /\ UNCHANGED fileVars
  /\ UNCHANGED classVars

\* PixelManager.step returns to the headless driver.
ReproEnd ==
  /\ step_returns
  /\ UNCHANGED simVars

-----------------------------------------------------------------------------
(* Direct calls of the World operations                                     *)

\* world.advance_environment(dt) called on its own.
AdvanceEnvironment ==
  /\ env_calls + deposits + io_calls < MaxEnvOps
  /\ advance_environment(dt)
  /\ UNCHANGED <<pmVars, size, grid, ctlVars>>
  /\ UNCHANGED classVars
  /\ UNCHANGED simVars
  /\ UNCHANGED fileVars
  /\ UNCHANGED <<seed, elevation, temperature, humidity, pressure>>
  /\ UNCHANGED <<last_deposit, io_raised, generated, io_calls>>
  /\ UNCHANGED <<tick, failures, swept, attempted, born, raised, move_raised,
                 energy_before, stocks_before, var_before, flux_seen, divisions,
                 deposits, grid_before>>

\* deposit_biomass(x, y, organics, minerals)
deposit_biomass(x, y, organics, minerals) ==
  /\ organic_layer' = DepositOrganic(x, y, organics)
  /\ mineral_layer' = DepositMineral(x, y, minerals)
  /\ dirty_cells' = DepositDirty(x, y)
  /\ last_deposit' = [x |-> x, y |-> y, organics |-> organics, minerals |-> minerals,
                      made |-> TRUE]
  /\ deposits' = deposits + 1
  /\ roundtrip' = NoRoundTrip
  /\ last_io' = "none"
  /\ UNCHANGED <<pmVars, size, grid, ctlVars>>
  /\ UNCHANGED classVars
  /\ UNCHANGED simVars
  /\ UNCHANGED fileVars
  /\ UNCHANGED mapVars
  /\ UNCHANGED <<env_failed, env_raised, io_raised, generated, io_calls>>
  /\ UNCHANGED <<tick, failures, swept, attempted, born, raised, move_raised,
                 energy_before, stocks_before, var_before, flux_seen, divisions,
                 reclassified, env_calls, grid_before>>

\* Tiles of the deposits on the strip: its last tile and a tile left of it.
BurstTiles == { <<0, size[2] - 1>>, <<-1, 0>> }

\* Tiles of the deposits on the small map: a corner, the centre, and tiles
\* outside the grid on two sides.
MapTiles == { <<0, size[2] - 1>>, <<1, 1>>, <<-1, 0>>, <<0, size[2]>> }

\* world.deposit_biomass(x, y, organics, minerals) called on its own, on the
\* strip.
DepositBiomass ==
  /\ env_calls + deposits + io_calls < MaxEnvOps
  /\ \E c \in BurstTiles, a \in DepositAmounts : deposit_biomass(c[1], c[2], a[1], a[2])

\* world.deposit_biomass(x, y, organics, minerals) called on its own, on the
\* small map.
DepositOnMap ==
  /\ env_calls + deposits + io_calls < MaxEnvOps
  /\ \E c \in MapTiles, a \in MapDepositAmounts : deposit_biomass(c[1], c[2], a[1], a[2])

\* world.save_snapshot(path)
save_snapshot(path) ==
  /\ files' = IF HasDirectory(path) THEN [files EXCEPT ![Stored(path)] = SnapshotOf]
              ELSE files
  /\ io_raised' = ~HasDirectory(path)
  /\ roundtrip' = IF HasDirectory(path)
                  THEN [stage |-> "saved", path |-> path, world |-> WorldArrays]
                  ELSE NoRoundTrip
  /\ UNCHANGED <<mapVars, organic_layer, mineral_layer>>

\* world.load_snapshot(path): np.load(path) raises without a file; the four
\* fields are assigned, then data.get("biome") gives the grid, None for an
\* archive without one, and raises on a grid saved as None; the slow layers
\* are re-created only if their shape differs from the loaded fields.
LoadRaises(path) ==
  IF files[path].exists THEN files[path].has_biome /\ files[path].biome = NoArray
  ELSE TRUE

load_snapshot(path) ==
  LET f == files[path]
      zeros == [c \in DOMAIN f.elevation |-> 0]
  IN /\ IF ~f.exists
        THEN UNCHANGED <<elevation, temperature, humidity, pressure, biome_map,
                         organic_layer, mineral_layer>>
        ELSE /\ elevation' = f.elevation
             /\ temperature' = f.temperature
             /\ humidity' = f.humidity
             /\ pressure' = f.pressure
             /\ IF LoadRaises(path)
                THEN UNCHANGED <<biome_map, organic_layer, mineral_layer>>
                ELSE /\ biome_map' = IF f.has_biome THEN f.biome ELSE NoArray
                     /\ organic_layer' = IF DOMAIN organic_layer # DOMAIN f.elevation
                                         THEN zeros ELSE organic_layer
                     /\ mineral_layer' = IF DOMAIN mineral_layer # DOMAIN f.elevation
                                         THEN zeros ELSE mineral_layer
     /\ io_raised' = LoadRaises(path)
     /\ roundtrip' = IF roundtrip.stage = "saved" /\ roundtrip.path = path
                     THEN [roundtrip EXCEPT !.stage = "loaded"]
                     ELSE NoRoundTrip
     /\ UNCHANGED <<seed, gases, files>>

\* world.save_snapshot(path) called on its own.
SaveSnapshot ==
  /\ env_calls + deposits + io_calls < MaxEnvOps
  /\ \E path \in Paths : save_snapshot(path)
  /\ io_calls' = io_calls + 1
  /\ last_io' = "save"
  /\ UNCHANGED <<pmVars, size, dirty_cells, grid, ctlVars, histVars, classVars>>
  /\ UNCHANGED simVars
  /\ UNCHANGED <<env_failed, env_raised, last_deposit, generated>>

\* world.load_snapshot(path) called on its own.
LoadSnapshot ==
  /\ env_calls + deposits + io_calls < MaxEnvOps
  /\ \E path \in Paths : load_snapshot(path)
  /\ io_calls' = io_calls + 1
  /\ last_io' = "load"
  /\ UNCHANGED <<pmVars, size, dirty_cells, grid, ctlVars, histVars, classVars>>
  /\ UNCHANGED simVars
  /\ UNCHANGED <<env_failed, env_raised, last_deposit, generated>>

\* MapGenerator(size, seed).generate(save_path) called on its own.
GenerateCall ==
  /\ env_calls + deposits + io_calls < MaxEnvOps
  /\ \E sd \in Seeds, path \in GeneratePaths :
       /\ files' = GenerateWrites(files, sd, size, path)
       /\ io_raised' = GenerateRaises(files, size, path)
       /\ generated' = IF GenerateRaises(files, size, path) THEN generated
                       ELSE generated \cup { [seed |-> sd, out |-> generate(files, sd, size, path)] }
  /\ io_calls' = io_calls + 1
  /\ last_io' = "generate"
  /\ roundtrip' = NoRoundTrip
  /\ UNCHANGED <<pmVars, worldVars, ctlVars, histVars, classVars, mapVars>>
  /\ UNCHANGED simVars
  /\ UNCHANGED <<env_failed, env_raised, last_deposit>>

-----------------------------------------------------------------------------
(* Simulation                                                               *)

\* Simulation.step(d), up to the start of the sweep: nothing while paused;
\* otherwise eff_dt = d * speed and PixelManager.step(eff_dt, world, grid),
\* whose exception, if any, ends the call.
simulation_step(d) ==
  /\ pc = "idle"
  /\ sim_dt' = d
  /\ IF paused
     THEN /\ paused_calls < MaxPausedCalls
          /\ paused_calls' = paused_calls + 1
          /\ sim_raised' = FALSE
          /\ UNCHANGED <<pmVars, worldVars, ctlVars, histVars, classVars, mapVars,
                         fileVars, ioVars>>
     ELSE /\ step_begin(d * sim_speed)
          /\ dt' = d * sim_speed
          /\ sim_raised' = EnvRaises
          /\ UNCHANGED paused_calls
  /\ UNCHANGED <<sim_time, paused, sim_speed, metrics>>

\* The driver's call sim.step(dt).
SimulationStep ==
  /\ \E d \in SimDts : simulation_step(d)
  /\ UNCHANGED step_commands

\* The Step button, _on_step: if self.sim.paused: self.sim.step(self.sim.base_dt),
\* and nothing when the simulation is running.
OnStep ==
  /\ pc = "idle"
  /\ step_commands < MaxStepCommands
  /\ step_commands' = step_commands + 1
  /\ IF paused
     THEN simulation_step(BASE_DT)
     ELSE /\ UNCHANGED <<pmVars, worldVars, ctlVars, histVars, classVars, mapVars,
                         fileVars, ioVars>>
          /\ UNCHANGED <<sim_time, paused, sim_speed, metrics, paused_calls, sim_dt,
                         sim_raised>>

\* Simulation.step, after PixelManager.step has returned: self.time += eff_dt
\* and metrics.update, whose first statement counts the step and whose
\* exceptions are swallowed.
SimulationReturn ==
  /\ step_returns
  /\ sim_time' = sim_time + dt
  /\ metrics' = IF metrics.attached THEN [metrics EXCEPT !.step_count = @ + 1]
                ELSE metrics
  /\ UNCHANGED <<paused, sim_speed, paused_calls, sim_dt, sim_raised, step_commands>>

\* What the controls leave alone.
ControlFrame ==
  /\ pc = "idle"
  /\ UNCHANGED <<pmVars, worldVars, ctlVars, histVars, classVars, mapVars, fileVars, ioVars>>
  /\ UNCHANGED <<sim_time, metrics, paused_calls, sim_dt, sim_raised, step_commands>>

\* The play and pause buttons: sim.paused = not sim.paused.
TogglePause ==
  /\ ControlFrame
  /\ paused' = ~paused
  /\ UNCHANGED sim_speed

\* The speed control: sim.speed = value.
SetSpeed ==
  /\ ControlFrame
  /\ \E v \in Speeds \ {sim_speed} : sim_speed' = v
  /\ UNCHANGED paused

\* world.load_snapshot(map_path) called by the host between two steps.
ReloadMap ==
  /\ pc = "idle"
  /\ io_calls < MaxReloads
  /\ load_snapshot("maps/world.npz")
  /\ io_calls' = io_calls + 1
  /\ last_io' = "load"
  /\ UNCHANGED <<pmVars, size, dirty_cells, grid, ctlVars, histVars, classVars>>
  /\ UNCHANGED simVars
  /\ UNCHANGED <<env_failed, env_raised, last_deposit, generated>>

-----------------------------------------------------------------------------
(* Specifications                                                           *)

Tick ==
  \/ StepBegin
  \/ SweepVisit
  \/ SweepEnd
  \/ ReproVisit
  \/ ReproEnd

Next ==
  \/ SpawnRandom
  \/ Tick

\* A run of main(): construction, spawn_random, then ticks.
Spec == Init /\ [][Next]_vars

\* The division scenario: one agent whose replication gene, stocks and stored
\* variance were set by hand, then ticks.
PreparedFrom(G, S, V) ==
  /\ \E n \in PreparedCounts, room \in PreparedRoom, p \in PreparedPositions,
        g \in G, st \in S, v \in V,
        og \in CompanionGenomes :
       LET cap == n + room
           gs == [i \in 1..cap |-> IF i = n THEN g ELSE IF i < n THEN og ELSE NoGenome]
       IN /\ capacity = cap
          /\ count = n
          /\ positions = [i \in 1..cap |-> IF i = n THEN p ELSE <<0, 0>>]
          /\ energies = [i \in 1..cap |-> IF i = n THEN st[IDX_ENERGY] ELSE ONE]
          /\ alive = [i \in 1..cap |-> TRUE]
          /\ time = 0
          /\ birth_time = [i \in 1..cap |-> 0]
          /\ energy_avg = [i \in 1..cap |-> ONE]
          /\ energy_var = [i \in 1..cap |-> IF i = n THEN v ELSE 0]
          /\ genomes = gs
          /\ traits = [i \in 1..cap |-> IF gs[i] = NoGenome THEN {} ELSE decode_traits(gs[i])]
          /\ internal_resources =
               [i \in 1..cap |-> IF i = n THEN [r \in 1..N_INTERNAL |-> st[r]]
                                 ELSE init_internal_state]
  /\ \E sz \in WorldSizes : WorldConstructed(sz, 1)
  /\ Idle
  /\ NothingObserved
  /\ NoClassifier
  /\ SimulationConstructed(NoMetrics)

InitPrepared == PreparedFrom(PreparedGenomes, PreparedStocks, PreparedVariances)

SpecPrepared == InitPrepared /\ [][Tick]_vars

\* The scenario of an agent that divides at once, with spawn_random still
\* callable before the first tick, so that both ways of adding an agent meet a
\* full population.
InitPopulation == PreparedFrom(DividingGenomes, DividingStocks, DividingVariances)

SpecPopulation == InitPopulation /\ [][Next]_vars

\* A World after a burst of deposit_biomass(x, y, 0, 0) calls along the strip,
\* then direct calls of its two operations.
InitBurst ==
  /\ ManagerConstructed(1)
  /\ \E sz \in BurstWorldSizes, n \in BurstSizes :
       /\ size = sz
       /\ organic_layer = [c \in Cells(sz) |-> 0]
       /\ mineral_layer = [c \in Cells(sz) |-> 0]
       /\ dirty_cells = { c \in Cells(sz) : CellRank(sz, c) < n }
       /\ \E gs \in WorldSizes : grid = [c \in Cells(gs) |-> 0]
       /\ \E sd \in MainSeeds : MapGenerated(sd, sz, NoPath)
  /\ pc = "idle"
  /\ idx = 0
  /\ loop_n = 0
  /\ dt \in BurstDts
  /\ NothingObserved
  /\ NoClassifier
  /\ SimulationConstructed(NoMetrics)

NextEnv ==
  \/ AdvanceEnvironment
  \/ DepositBiomass

SpecEnv == InitBurst /\ [][NextEnv]_vars

\* A World built with or without a map cache, then direct calls of its
\* operations, of its snapshots and of the map generator.
InitWorld ==
  /\ ManagerConstructed(1)
  /\ \E sz \in SnapshotWorldSizes, sd \in Seeds, mp \in MapPaths :
       /\ size = sz
       /\ organic_layer = [c \in Cells(sz) |-> 0]
       /\ mineral_layer = [c \in Cells(sz) |-> 0]
       /\ dirty_cells = {}
       /\ grid = [c \in Cells(sz) |-> 0]
       /\ MapGenerated(sd, sz, mp)
  /\ pc = "idle"
  /\ idx = 0
  /\ loop_n = 0
  /\ dt \in WorldDts
  /\ NothingObserved
  /\ NoClassifier
  /\ SimulationConstructed(NoMetrics)

NextWorld ==
  \/ AdvanceEnvironment
  \/ DepositOnMap
  \/ SaveSnapshot
  \/ LoadSnapshot
  \/ GenerateCall

SpecWorld == InitWorld /\ [][NextWorld]_vars

\* A caller of biome_from_env with fixed arguments.
InitClassifier ==
  /\ ManagerConstructed(1)
  /\ \E sz \in WorldSizes : WorldConstructed(sz, 0)
  /\ Idle
  /\ NothingObserved
  /\ SimulationConstructed(NoMetrics)
  /\ biome_args \in [elevation : BiomeElevations, temperature : BiomeTemperatures,
                     humidity : BiomeHumidities, pressure : BiomeLatitudes,
                     global_o2 : BiomeOxygen, organic_layer : BiomeOrganics,
                     mineral_layer : BiomeMinerals, local_noise : BiomeNoise]
  /\ biome_returned = <<>>
  /\ NoDecoder

\* One call biome_from_env(...) with the caller's arguments.
ClassifyCall ==
  /\ biome_args # NoArgs
  /\ Len(biome_returned) < MaxBiomeCalls
  /\ biome_returned' = Append(biome_returned, BiomeOf(biome_args))
  /\ UNCHANGED <<pmVars, worldVars, ctlVars, histVars, biome_args>>
  /\ UNCHANGED <<decode_arg, decode_returned>>
  /\ UNCHANGED <<mapVars, fileVars, ioVars>>
  /\ UNCHANGED simVars

SpecClassifier == InitClassifier /\ [][ClassifyCall]_vars

\* A caller of decode_traits with a fixed genome.
InitDecoder ==
  /\ ManagerConstructed(1)
  /\ \E sz \in WorldSizes : WorldConstructed(sz, 0)
  /\ Idle
  /\ NothingObserved
  /\ SimulationConstructed(NoMetrics)
  /\ biome_args = NoArgs
  /\ biome_returned = <<>>
  /\ decode_arg \in DecoderGenomes
  /\ decode_returned = <<>>

\* One call decode_traits(genome) with the caller's genome.
DecodeCall ==
  /\ Len(decode_returned) < MaxDecodeCalls
  /\ decode_returned' = Append(decode_returned, decode_traits(decode_arg))
  /\ UNCHANGED <<pmVars, worldVars, ctlVars, histVars, biome_args, biome_returned>>
  /\ UNCHANGED <<decode_arg, mapVars, fileVars, ioVars>>
  /\ UNCHANGED simVars

SpecDecoder == InitDecoder /\ [][DecodeCall]_vars

\* main() with the driver: a World with or without a map cache, a
\* PixelManager, a Simulation with or without a recorder; then the population
\* is spawned and the controls and Simulation.step are used.
InitSimulation ==
  /\ \E cap \in SimCapacities : ManagerConstructed(cap)
  /\ \E sz \in WorldSizes, mp \in MapPaths :
       /\ size = sz
       /\ organic_layer = [c \in Cells(sz) |-> 0]
       /\ mineral_layer = [c \in Cells(sz) |-> 0]
       /\ dirty_cells = {}
       /\ grid = [c \in Cells(sz) |-> 0]
       /\ \E sd \in MainSeeds : MapGenerated(sd, sz, mp)
  /\ pc = "idle"
  /\ idx = 0
  /\ loop_n = 0
  /\ dt = 0
  /\ NothingObserved
  /\ NoClassifier
  /\ \E a \in BOOLEAN : SimulationConstructed([attached |-> a, step_count |-> 0])

NextSimulation ==
  \/ SpawnRandom
  \/ TogglePause
  \/ SetSpeed
  \/ ReloadMap
  \/ SimulationStep
  \/ OnStep
  \/ SweepVisit
  \/ SweepEnd
  \/ ReproVisit
  \/ SimulationReturn

SpecSimulation == InitSimulation /\ [][NextSimulation]_vars

-----------------------------------------------------------------------------
(* Properties                                                               *)

\* C1: after every PixelManager.step, every live agent i < count has
\* 0 <= energies[i] <= 1.
EnergyWithinUnitInterval ==
  pc = "idle" =>
    \A i \in 1..count : alive[i] => (0 <= energies[i] /\ energies[i] <= ONE)

\* C2: for every slot below count, alive only ever goes from true to false;
\* count never shrinks; a slot below count keeps its genome and birth time, and
\* a dead slot is never written again: new agents go to index count only.
SlotsFallOnceAndAppend ==
  [][ /\ count' >= count
      /\ \A i \in 1..count :
           /\ alive'[i] => alive[i]
           /\ genomes'[i] = genomes[i]
           /\ birth_time'[i] = birth_time[i]
           /\ ~alive[i] => /\ positions'[i] = positions[i]
                           /\ energies'[i] = energies[i]
                           /\ internal_resources'[i] = internal_resources[i]
    ]_vars

\* C2 witness: a child was appended behind a slot that is dead.
ChildAppendedBehindDeadSlot ==
  \E d \in divisions : \E i \in 1..count :
    ~alive[i] /\ i < d.child /\ alive[d.child] /\ count = d.child

\* C3: every child of the tick was created for a parent that, at the check, was
\* alive, had genome[0] >= 0.7, ENERGY > 0.7, ORGANICS > 0.6, MEMBRANE > 0.5,
\* INFO_ORDER > 0.2 and max(0, 0.5 - ENERGY) + variance >= 0.02; no child
\* exists without such a division.
DivisionOnlyWhenGated ==
  /\ \A c \in born : \E d \in divisions : d.child = c
  /\ \A d \in divisions :
       /\ d.parent_alive
       /\ d.gene >= 700
       /\ d.pre[IDX_ENERGY] > 700
       /\ d.pre[IDX_ORGANICS] > 600
       /\ d.pre[IDX_MEMBRANE] > 500
       /\ d.pre[IDX_INFO] > 200
       /\ Max(0, 500 - d.pre[IDX_ENERGY]) * ONE + d.var >= 20000

\* C3 witness: a division of a parent whose stored variance met the floor.
GatedDivisionHappened ==
  \E d \in divisions : d.var >= 20000 /\ d.child \in born /\ d.gene >= 700

\* C4: after a division parent and child hold the same stocks, 0.4 times the
\* parent's stocks before it (0.32 times on ENERGY), up to the rounding of the
\* fixed-point unit, and their ENERGY together is at most the parent's before.
DivisionSplitsStocks ==
  \A d \in divisions :
    LET pst == internal_resources[d.parent]
        cst == internal_resources[d.child]
    IN /\ pst = cst
       /\ \A r \in 1..N_INTERNAL :
            IF r = IDX_ENERGY
            THEN 100 * pst[r] <= 32 * d.pre[r] /\ 100 * pst[r] >= 32 * d.pre[r] - 200
            ELSE 10 * pst[r] <= 4 * d.pre[r] /\ 10 * pst[r] > 4 * d.pre[r] - 10
       /\ pst[IDX_ENERGY] + cst[IDX_ENERGY] <= d.pre[IDX_ENERGY]

\* C4 witness: a division that left both agents with part of the energy and
\* lost the rest.
DivisionLostEnergy ==
  \E d \in divisions :
    /\ internal_resources[d.child][IDX_ENERGY] > 0
    /\ internal_resources[d.parent][IDX_ENERGY] + internal_resources[d.child][IDX_ENERGY]
         < d.pre[IDX_ENERGY]

\* C5: an agent born in a tick is neither visited by that tick's sweep nor by
\* that tick's reproduction loop.
NewbornNotProcessed == born \cap (swept \cup attempted) = {}

\* C5 witness: a tick ended with a newborn, after the reproduction loop went
\* through the agents that were there when it started.
TickEndedWithNewborn ==
  pc = "idle" /\ born # {} /\ attempted # {} /\ \A c \in born : alive[c]

CountBoundedAndFullIsFrozen ==
  [][ /\ 0 <= count'
      /\ count' <= capacity'
      /\ count' >= count
      /\ (count = capacity /\ (pc = "repro" \/ (pc = "idle" /\ pc' = "idle")))
           => UNCHANGED <<count, positions, energies, alive, birth_time, genomes,
                          traits, internal_resources>> ]_vars

\* A full population in which an agent that passes every division gate was
\* visited by the reproduction loop and got no child.
DivisionRefusedWhenFull ==
  /\ pc = "repro"
  /\ idx > 1
  /\ (idx - 1) \in attempted
  /\ MayDivide(idx - 1)
  /\ count = capacity
  /\ born = {}

\* C19: with metabolism active, after every PixelManager.step every live agent
\* i < count has energies[i] equal to its ENERGY stock, the parent and the child
\* of a division of that tick included (no guarded call has raised).
EnergyMirrorsEnergyStock ==
  (pc = "idle" /\ tick > 0 /\ failures = 0)
    => \A i \in 1..count : alive[i] => energies[i] = internal_resources[i][IDX_ENERGY]

\* C20: after every PixelManager.step on a W x H world every live agent
\* i < count, children of that tick included, has 0 <= x <= W-1 and
\* 0 <= y <= H-1.
PositionsWithinWorld ==
  (pc = "idle" /\ tick > 0)
    => \A i \in 1..count :
         alive[i] => /\ 0 <= positions[i][1]
                     /\ positions[i][1] <= QUARTER * (size[1] - 1)
                     /\ 0 <= positions[i][2]
                     /\ positions[i][2] <= QUARTER * (size[2] - 1)

ClassificationFailureContained ==
  env_failed # {} => (~env_raised /\ env_failed \subseteq dirty_cells)

\* C12: deposit_biomass on a tile of the grid adds max(0, organics) and
\* max(0, minerals) to that tile only, adds that tile and its neighbours in the
\* grid to the dirty set and leaves the biome grid and the fields alone; on a
\* tile outside the grid it changes nothing of the World.
DepositTouchesOnlyItsTile ==
  [][ deposits' = deposits + 1 =>
        LET d == last_deposit'
            tile == <<d.x, d.y>>
            around == { k \in Cells(size) : k[1] \in (d.x - 1)..(d.x + 1)
                                            /\ k[2] \in (d.y - 1)..(d.y + 1) }
        IN IF 0 <= d.x /\ d.x < size[1] /\ 0 <= d.y /\ d.y < size[2]
           THEN /\ organic_layer' =
                     [k \in Cells(size) |->
                        IF k = tile THEN organic_layer[k] + (IF d.organics > 0 THEN d.organics ELSE 0)
                        ELSE organic_layer[k]]
                /\ mineral_layer' =
                     [k \in Cells(size) |->
                        IF k = tile THEN mineral_layer[k] + (IF d.minerals > 0 THEN d.minerals ELSE 0)
                        ELSE mineral_layer[k]]
                /\ dirty_cells' = dirty_cells \cup around
                /\ UNCHANGED <<size, grid, mapVars>>
           ELSE UNCHANGED <<worldVars, mapVars>> ]_vars

\* A deposit with a negative amount of organics on the corner tile of a clean
\* map: four tiles are dirty, the layers of the corner got the minerals only.
CornerDepositMade ==
  /\ last_deposit.made
  /\ last_deposit.x = 0
  /\ last_deposit.y = size[2] - 1
  /\ last_deposit.organics < 0
  /\ last_io = "none"
  /\ env_calls = 0
  /\ deposits = 1
  /\ Cardinality(dirty_cells) = 4
  /\ organic_layer[<<0, size[2] - 1>>] = 0

\* C14: save_snapshot(path) followed by load_snapshot(path) leaves elevation,
\* temperature, humidity, pressure and the biome grid as they were before the
\* save.
SnapshotRoundTrip ==
  roundtrip.stage = "loaded" => WorldArrays = roundtrip.world

\* A snapshot was written and read back, both calls returning normally.
SnapshotReadBack ==
  /\ roundtrip.stage = "loaded"
  /\ ~io_raised
  /\ files[roundtrip.path].exists
  /\ biome_map # NoArray

\* C15: after load_snapshot of an archive without organic/mineral layers the
\* World has both layers zero in every cell, whatever they held before.
LoadZeroesLayers ==
  (last_io = "load" /\ ~io_raised)
    => \A c \in DOMAIN organic_layer : organic_layer[c] = 0 /\ mineral_layer[c] = 0

\* C16: any two generate calls with the same seed and size return the same
\* fields, with or without a cache file at save_path.
GenerateDependsOnSeedOnly ==
  \A a \in generated, b \in generated : a.seed = b.seed => a.out = b.out

DeathDepositsOnceThenSkipped ==
  [][ /\ \A i \in 1..count :
           /\ (pc = "sweep" /\ idx = i /\ alive[i] /\ energies'[i] <= 0)
                => /\ ~alive'[i]
                   /\ deposits' = deposits + 1
                   /\ last_deposit'.made
                   /\ <<last_deposit'.x, last_deposit'.y>> \in Cells(size)
                   /\ 2 * (QUARTER * last_deposit'.x - positions'[i][1]) \in -QUARTER..QUARTER
                   /\ 2 * (QUARTER * last_deposit'.y - positions'[i][2]) \in -QUARTER..QUARTER
                   /\ last_deposit'.organics = internal_resources'[i][IDX_ORGANICS]
                   /\ last_deposit'.minerals = internal_resources'[i][IDX_MINERALS]
           /\ ~alive[i]
                => /\ ~alive'[i]
                   /\ positions'[i] = positions[i]
                   /\ energies'[i] = energies[i]
                   /\ internal_resources'[i] = internal_resources[i]
                   /\ i \notin swept' \ swept
                   /\ \A d \in divisions' \ divisions : d.parent # i
      /\ deposits' # deposits
           => /\ deposits' = deposits + 1
              /\ pc = "sweep" /\ idx \in 1..count /\ alive[idx] /\ ~alive'[idx]
      /\ count' > count /\ pc = "repro" => alive[idx] ]_vars

\* An agent died in a first tick, left its biomass, and a second tick has been
\* completed over its slot.
DeadSlotSkippedByNextTick ==
  /\ pc = "idle"
  /\ tick = 2
  /\ deposits = 1
  /\ last_deposit.made
  /\ \E i \in 1..count : ~alive[i] /\ i \notin swept

\* C22: in every World state a cell that is not in the dirty set has the biome
\* that classification gives on its current inputs (the base classifier, or the
\* full classification with its river/lake pass).
CleanCellsAreCurrent ==
  biome_map # NoArray =>
    LET f == [elevation |-> elevation, temperature |-> temperature,
              humidity |-> humidity, pressure |-> pressure]
        raw == [c \in Cells(size) |-> reclassify_cell(c, organic_layer, mineral_layer, gases)]
        full == RiversAndLakes(size, f, raw, 0, size[1] * size[2])
    IN \A c \in Cells(size) \ dirty_cells : biome_map[c] \in {raw[c], full[c]}

\* C23: every advance_environment call removes min(512, n) of the n dirty
\* cells and reclassifies the cells it removes, so that a dirty cell is
\* eventually reclassified and, without further deposits, n dirty cells are
\* gone after ceil(n / 512) calls.
DirtyCellsDrainAtFullRate ==
  [][ env_calls' = env_calls + 1 =>
        /\ dirty_cells' \subseteq dirty_cells
        /\ Cardinality(dirty_cells') = Max(0, Cardinality(dirty_cells) - MAX_PER_STEP)
        /\ \A c \in dirty_cells \ dirty_cells' :
             /\ biome_map' # NoArray
             /\ biome_map'[c] = reclassify_cell(c, organic_layer', mineral_layer', gases') ]_vars

\* C24: in the grid the full classification leaves, a cell whose first-pass
\* biome is OCEAN, WATER, LAKE, RIVER or BEACH keeps it, and a land cell is RIVER
\* or LAKE according to the first-pass biomes of its 8 neighbours only.
SecondPassReadsFirstPassOnly ==
  (env_calls = 0 /\ io_calls = 0) =>
    LET none == [c \in Cells(size) |-> 0]
        raw == [c \in Cells(size) |-> reclassify_cell(c, none, none, gases)]
        around(c) == { raw[d] : d \in { k \in Cells(size) : /\ k # c
                                                             /\ k[1] \in (c[1] - 1)..(c[1] + 1)
                                                             /\ k[2] \in (c[2] - 1)..(c[2] + 1) } }
    IN \A c \in Cells(size) :
         biome_map[c] =
           IF raw[c] \in {"OCEAN", "WATER", "LAKE", "RIVER", "BEACH"} THEN raw[c]
           ELSE IF /\ 160 < elevation[c] /\ elevation[c] < 650 /\ humidity[c] > 600
                   /\ around(c) \cap {"OCEAN", "WATER", "LAKE", "BEACH", "RIVER"} # {}
                THEN "RIVER"
           ELSE IF /\ elevation[c] < 320 /\ humidity[c] > 700
                   /\ around(c) \cap {"OCEAN", "WATER"} = {}
                THEN "LAKE"
           ELSE raw[c]


\* C25: on land (elevation >= 0.20) with organic_layer < 0.02, biome_from_env
\* never returns GRASSLAND, FOREST, RAINFOREST, SAVANNA, SWAMP or MANGROVE,
\* whatever the temperature, humidity, latitude, oxygen and noise are.
PreBioticGate ==
  \A k \in 1..Len(biome_returned) :
    (biome_args.elevation >= 200 /\ biome_args.organic_layer < 20)
      => biome_returned[k] \notin { "GRASSLAND", "FOREST", "RAINFOREST", "SAVANNA", "SWAMP", "MANGROVE" }

\* A humid warm lowland just under the floor is classified, and is barren,
\* where the same land just over the floor would be a mangrove.
BarrenUnderTheFloor ==
  /\ Len(biome_returned) > 0
  /\ biome_args.organic_layer = 19 /\ biome_args.elevation = 300
  /\ biome_args.humidity = 850 /\ biome_args.temperature = 650 /\ biome_args.pressure = 500
  /\ biome_returned[1] \in { "PLAIN", "HILLS" }
  /\ BiomeOf([biome_args EXCEPT !.organic_layer = 50]) = "MANGROVE"


\* C26: every trait decode_traits returns is mapped from a gene of the genome
\* whose value is >= 0.6, and all its direct prerequisites are in the set of
\* proposed traits the result was filtered from.
ReturnedTraitsAreProposedAndClosed ==
  \A k \in 1..Len(decode_returned) :
    LET over == { j \in 3..8 : j <= Len(decode_arg) /\ decode_arg[j] >= TRAIT_GENE_THRESHOLD }
        proposed == { GENE_TRAIT_MAP[j] : j \in over }
    IN \A t \in decode_returned[k] :
         /\ t \in proposed
         /\ \A r \in TRAIT_PREREQS(t) : r \in proposed

\* A proposed trait with one of its two prerequisites proposed is filtered out
\* while a trait without prerequisites is kept.
HalfMetPrerequisiteFiltered ==
  /\ Len(decode_returned) > 0
  /\ Len(decode_arg) = 8
  /\ decode_arg[5] >= TRAIT_GENE_THRESHOLD /\ decode_arg[6] >= TRAIT_GENE_THRESHOLD
  /\ decode_arg[7] >= TRAIT_GENE_THRESHOLD /\ decode_arg[8] < TRAIT_GENE_THRESHOLD
  /\ decode_returned[1] = {"cilia"}

\* C29: decode_traits returns a subset of {cilia, flagella}; no agent holds
\* muscle, legs, fins or wings; traits raise the motility level to at most 1,
\* and it is 2 only when the motility gene is >= 0.6.
OnlyCiliaAndFlagella ==
  /\ \A k \in 1..Len(decode_returned) :
       /\ decode_returned[k] \subseteq {"cilia", "flagella"}
       /\ decode_returned[k] \cap {"photosynthesis", "chemosynthesis", "antifreeze_proteins",
                                   "heat_resistance", "muscle", "legs", "fins", "wings"} = {}
       /\ MotilityLevel(decode_arg, decode_returned[k]) = 2
            => (Len(decode_arg) >= 2 /\ decode_arg[MOTILITY_GENE_INDEX] >= MOTILITY_LEVEL2)
       /\ MotilityLevel(decode_arg, decode_returned[k]) # MotilityLevel(decode_arg, {})
            => MotilityLevel(decode_arg, decode_returned[k]) = 1
  /\ \A i \in 1..capacity :
       /\ traits[i] \subseteq {"cilia", "flagella"}
       /\ (genomes[i] # NoGenome /\ MotilityLevel(genomes[i], traits[i]) = 2)
            => genomes[i][MOTILITY_GENE_INDEX] >= MOTILITY_LEVEL2

\* Every mapped gene is over the threshold and the motility gene is not: the
\* call returns cilia and flagella only, which give motility level 1.
AllGenesHighTwoTraits ==
  /\ Len(decode_returned) > 0
  /\ Len(decode_arg) = 8
  /\ \A j \in 3..8 : decode_arg[j] >= TRAIT_GENE_THRESHOLD
  /\ decode_arg[MOTILITY_GENE_INDEX] < MOTILITY_LEVEL1
  /\ decode_returned[1] = {"cilia", "flagella"}
  /\ MotilityLevel(decode_arg, decode_returned[1]) = 1


\* C27: the single-step command issued while the simulation is paused
\* advances the simulation by one tick of base_dt (the population's clock and
\* tick move once, with dt = base_dt) and leaves the simulation paused.
SingleStepAdvancesOneTick ==
  [][ (step_commands' = step_commands + 1 /\ paused)
        => /\ paused'
           /\ tick' = tick + 1
           /\ time' > time
           /\ sim_dt' = BASE_DT ]_vars


\* C28: right after advance_environment has reclassified a dirty cell, the
\* cell's biome is biome_from_env of its current fields, layers, gas and
\* noise, with no river or lake pass: it is never RIVER, and LAKE only as
\* shallow water.
ReclassificationIsBaseOnly ==
  [][ env_calls' = env_calls + 1 =>
        \A c \in reclassified' :
          /\ biome_map' # NoArray
          /\ biome_map'[c] = biome_from_env(elevation'[c], temperature'[c], humidity'[c],
                                            pressure'[c], (gases'.o2 + 999) \div 1000,
                                            organic_layer'[c],
                                            mineral_layer'[c], local_noise_at(seed', c))
          /\ biome_map'[c] # "RIVER"
          /\ biome_map'[c] = "LAKE" => elevation'[c] < 160 ]_vars

\* A cell that construction made RIVER has been reclassified and is a river no
\* more.
RiverReplacedByBase ==
  /\ biome_map # NoArray
  /\ io_calls = 0
  /\ \E c \in reclassified :
       /\ classify_biomes(seed, size,
                          [elevation |-> elevation, temperature |-> temperature,
                           humidity |-> humidity, pressure |-> pressure], GLOBAL_O2)[c] = "RIVER"
       /\ biome_map[c] \in Biome \ {"RIVER"}


\* C30: the global gases of a constructed World always equal their baselines
\* (0.02, 0.0004, 0.0), and no cell of the biome grid is FOREST or RAINFOREST,
\* at construction or after any reclassification.
GasesAtBaselineNoForest ==
  /\ gases = [o2 |-> 20000, co2 |-> 400, ch4 |-> 0]
  /\ biome_map # NoArray => \A c \in DOMAIN biome_map : biome_map[c] \notin {"FOREST", "RAINFOREST"}

\* A humid tropical lowland holds rich soil after two long steps and has been
\* reclassified: with the oxygen of today's air it would be rainforest.
RichSoilStillNoForest ==
  /\ env_calls >= 2 /\ dt = 500
  /\ biome_map # NoArray
  /\ \E c \in reclassified :
       /\ organic_layer[c] > 200
       /\ reclassify_cell(c, organic_layer, mineral_layer, ModernAir) = "RAINFOREST"
       /\ biome_map[c] \in Biome \ {"FOREST", "RAINFOREST"}

=============================================================================
